---- MODULE Spec2Model ----
(***************************************************************************)
(* State-machine model of pandemonium/bologna:                             *)
(*   src/src/hashish.rs  the fixed-capacity open-addressing Table          *)
(*   src/src/main.rs     Stat, aggregate_chunk, chunkify, parse_temperature*)
(*                       and the scoped-thread reduce driver of main       *)
(*                                                                         *)
(* The specifications share the variables below:                           *)
(*   Spec          one Table<N, &str, i32> driven by arbitrary calls       *)
(*   SpecChunkify  chunkify on bounded extents and partition counts        *)
(*   SpecMerge     StatChunk::merge_with folding two tables into a third   *)
(*   SpecPipeline  main: chunkify, spawn, join, reduce                     *)
(*   SpecIter      Table::iter and TableIterator::next                     *)
(*   SpecStat      Stat::merge_with in either order and association        *)
(*   SpecAggregate the workers and the fold of main, turn by turn          *)
(***************************************************************************)
EXTENDS Integers, Sequences, FiniteSets, TLC

(***************************************************************************)
(* usize arithmetic.  A usize is 64 bits wide; it is kept as its 8 bytes,  *)
(* least significant first, so that every operation below is exact and     *)
(* overflow of the machine word is visible.  Words are built as tuples.    *)
(***************************************************************************)
WordBytes == 8

ZeroWord == << 0, 0, 0, 0, 0, 0, 0, 0 >>

RECURSIVE Pow2(_)
Pow2(n) == IF n = 0 THEN 1 ELSE 2 * Pow2(n - 1)

\* the word holding the natural number n (n < 2^31)
RECURSIVE NatBytes(_, _)
NatBytes(n, i) ==
    IF i > WordBytes THEN << >> ELSE << n % 256 >> \o NatBytes(n \div 256, i + 1)

WordOfNat(n) == NatBytes(n, 1)

\* the word read from up to 8 bytes in native (little-endian) order
RECURSIVE PadBytes(_, _)
PadBytes(bs, i) ==
    IF i > WordBytes THEN << >>
    ELSE << IF i <= Len(bs) THEN bs[i] ELSE 0 >> \o PadBytes(bs, i + 1)

WordOfBytes(bs) == PadBytes(bs, 1)

RECURSIVE BitXor(_, _, _)
BitXor(a, b, n) ==
    IF n = 0 THEN 0
    ELSE ((a + b) % 2) + 2 * BitXor(a \div 2, b \div 2, n - 1)

RECURSIVE XorBytes(_, _, _)
XorBytes(a, b, i) ==
    IF i > WordBytes THEN << >>
    ELSE << BitXor(a[i], b[i], 8) >> \o XorBytes(a, b, i + 1)

WordXor(a, b) == XorBytes(a, b, 1)

\* usize::rotate_left(r): by r \div 8 bytes and r % 8 bits
RECURSIVE RotBytes(_, _, _)
RotBytes(w, r, i) ==
    IF i > WordBytes THEN << >>
    ELSE LET from == ((i - 1 - (r \div 8)) % WordBytes) + 1
             prev == ((i - 2 - (r \div 8)) % WordBytes) + 1
         IN  << ((w[from] * Pow2(r % 8)) % 256) + (w[prev] \div Pow2(8 - (r % 8))) >>
                 \o RotBytes(w, r, i + 1)

rotate_left(w, r) == RotBytes(w, r, 1)

\* column k (1-based) of the schoolbook product of the words a and b
RECURSIVE MulColumn(_, _, _, _)
MulColumn(a, b, k, i) ==
    IF i > k \/ i > WordBytes THEN 0
    ELSE (IF k + 1 - i <= WordBytes THEN a[i] * b[k + 1 - i] ELSE 0)
             + MulColumn(a, b, k, i + 1)

\* the n least significant bytes of the product, from column k on
RECURSIVE MulBytes(_, _, _, _, _)
MulBytes(a, b, k, carry, n) ==
    IF k > n THEN << >>
    ELSE LET s == MulColumn(a, b, k, 1) + carry
         IN  << s % 256 >> \o MulBytes(a, b, k + 1, s \div 256, n)

\* usize::wrapping_mul
wrapping_mul(a, b) == MulBytes(a, b, 1, 0, WordBytes)

RECURSIVE RevBits(_, _)
RevBits(b, n) ==
    IF n = 0 THEN 0 ELSE (b % 2) * Pow2(n - 1) + RevBits(b \div 2, n - 1)

\* usize::reverse_bits
RECURSIVE RevBytes(_, _)
RevBytes(w, i) ==
    IF i > WordBytes THEN << >>
    ELSE << RevBits(w[WordBytes + 1 - i], 8) >> \o RevBytes(w, i + 1)

reverse_bits(w) == RevBytes(w, 1)

\* w % n, by Horner's rule from the most significant byte
RECURSIVE ModFrom(_, _, _, _)
ModFrom(w, n, i, r) ==
    IF i = 0 THEN r ELSE ModFrom(w, n, i - 1, (r * 256 + w[i]) % n)

WordMod(w, n) == ModFrom(w, n, WordBytes, 0)

\* a + b on usize: the wrapped sum and whether the true sum left the word
RECURSIVE AddBytes(_, _, _, _)
AddBytes(a, b, i, carry) ==
    IF i > WordBytes THEN << carry >>
    ELSE LET s == a[i] + b[i] + carry
         IN  << s % 256 >> \o AddBytes(a, b, i + 1, s \div 256)

WordAdd(a, b) ==
    LET s == AddBytes(a, b, 1, 0)
    IN  [sum |-> SubSeq(s, 1, WordBytes), overflow |-> s[WordBytes + 1] = 1]

(***************************************************************************)
(* Keys are &str: sequences of one-character strings, one per byte.  ord   *)
(* gives the byte of each; "xHH" stands for the byte HH (hexadecimal) of a *)
(* character that UTF-8 encodes in several bytes, or of a control          *)
(* character.                                                              *)
(***************************************************************************)
Ascii ==
    { << "\n", 10 >>, << "x1B", 27 >>, << "$", 36 >>, << "-", 45 >>,
      << ".", 46 >>,
      << "0", 48 >>, << "1", 49 >>, << "2", 50 >>, << "3", 51 >>, << "4", 52 >>,
      << "5", 53 >>, << "6", 54 >>, << "7", 55 >>, << "8", 56 >>, << "9", 57 >>,
      << ";", 59 >>, << "?", 63 >>, << "A", 65 >>, << "J", 74 >>, << "T", 84 >>,
      << "X", 88 >>, << "Y", 89 >>,
      << "a", 97 >>, << "b", 98 >>, << "c", 99 >>, << "d", 100 >>,
      << "e", 101 >>, << "i", 105 >>, << "j", 106 >>, << "p", 112 >>,
      << "w", 119 >>, << "{", 123 >>,
      << "x85", 133 >>, << "x88", 136 >>, << "xA3", 163 >>, << "xA4", 164 >>,
      << "xCA", 202 >>, << "xF2", 242 >> }

ord(c) == (CHOOSE p \in Ascii : p[1] = c)[2]

RECURSIVE as_bytes(_)
as_bytes(s) == IF s = << >> THEN << >> ELSE << ord(Head(s)) >> \o as_bytes(Tail(s))

(***************************************************************************)
(* compute_hash for &str: FxHasher::default(), str::hash, finish, with the *)
(* FxHasher of rustc-hash 2.1.1 on a 64-bit target.  str::hash writes the  *)
(* bytes and then the byte 0xff; write(bytes) folds hash_bytes(bytes) into *)
(* the state, add_to_hash is a wrapping addition followed by a wrapping    *)
(* multiplication by K, and finish rotates the state left by 26 bits.      *)
(***************************************************************************)
\* K = 0xf1357aea2e62a9c5, least significant byte first
FxSeed == << 197, 169, 98, 46, 234, 122, 53, 241 >>

\* 0x243f6a8885a308d3
SEED1 == << 211, 8, 163, 133, 136, 106, 63, 36 >>

\* 0x13198a2e03707344
SEED2 == << 68, 115, 112, 3, 46, 138, 25, 19 >>

\* 0xa4093822299f31d0
PREVENT_TRIVIAL_ZERO_COLLAPSE == << 208, 49, 159, 41, 34, 56, 9, 164 >>

\* the 128-bit product of x and y, low half xor high half
multiply_mix(x, y) ==
    LET full == MulBytes(x, y, 1, 0, 2 * WordBytes)
    IN  WordXor(SubSeq(full, 1, WordBytes), SubSeq(full, WordBytes + 1, 2 * WordBytes))

\* hash_bytes, len > 16: the loop over the 16-byte blocks before the suffix
RECURSIVE hash_bulk(_, _, _, _)
hash_bulk(bs, off, s0, s1) ==
    IF off < Len(bs) - 16
    THEN LET x == WordOfBytes(SubSeq(bs, off + 1, off + 8))
             y == WordOfBytes(SubSeq(bs, off + 9, off + 16))
         IN  hash_bulk(bs, off + 16, s1,
                       multiply_mix(WordXor(s0, x),
                                    WordXor(PREVENT_TRIVIAL_ZERO_COLLAPSE, y)))
    ELSE << WordXor(s0, WordOfBytes(SubSeq(bs, Len(bs) - 15, Len(bs) - 8))),
            WordXor(s1, WordOfBytes(SubSeq(bs, Len(bs) - 7, Len(bs)))) >>

hash_bytes(bs) ==
    LET len == Len(bs)
        s   == IF len > 16 THEN hash_bulk(bs, 0, SEED1, SEED2)
               ELSE IF len >= 8
               THEN << WordXor(SEED1, WordOfBytes(SubSeq(bs, 1, 8))),
                       WordXor(SEED2, WordOfBytes(SubSeq(bs, len - 7, len))) >>
               ELSE IF len >= 4
               THEN << WordXor(SEED1, WordOfBytes(SubSeq(bs, 1, 4))),
                       WordXor(SEED2, WordOfBytes(SubSeq(bs, len - 3, len))) >>
               ELSE IF len > 0
               THEN << WordXor(SEED1, WordOfBytes(<< bs[1] >>)),
                       WordXor(SEED2, WordOfBytes(<< bs[(len \div 2) + 1], bs[len] >>)) >>
               ELSE << SEED1, SEED2 >>
    IN  WordXor(multiply_mix(s[1], s[2]), WordOfNat(len))

\* FxHasher::add_to_hash: self.hash.wrapping_add(i).wrapping_mul(K)
add_to_hash(h, w) == wrapping_mul(WordAdd(h, w).sum, FxSeed)

\* FxHasher::finish: self.hash.rotate_left(26)
finish(h) == rotate_left(h, 26)

fx_hash(key) ==
    finish(add_to_hash(add_to_hash(ZeroWord, hash_bytes(as_bytes(key))),
                       WordOfNat(255)))

\* The keys of specification Spec.  With N = 5, "p" and "a" share the home
\* slot 2, "a" with a probe step that is a multiple of N, and "c" has the
\* home slot 4; the last key, "J\u{a3148}j?$i\u{2a4}w\u{1b}{TA", has the
\* hash 0x7fffffffffffffff (home slot 2), whose bit reversal added to an
\* index >= 2 leaves the machine word.
Keys ==
    { << "p" >>, << "a" >>, << "c" >>,
      << "J", "xF2", "xA3", "x85", "x88", "j", "?", "$",
         "i", "xCA", "xA4", "w", "x1B", "{", "T", "A" >> }

\* The city names of specification SpecMerge.  With N = 5, "abc", "aaa" and
\* "bab" share the home slot 0, "bab" with a probe step that is a multiple
\* of N.
Cities ==
    { << "a", "b", "c" >>, << "a", "a", "a" >>, << "b", "a", "b" >> }

\* The further key of specification SpecPipeline: what aggregate_chunk takes
\* for the city name at the head of the chunk "X;1.0\nY;-2.5\n".
ChunkHeads == { << "X", ";", "1", ".", "0", "\n", "Y" >> }

\* the hashes of the keys above, computed once
HashMemo == { << k, fx_hash(k) >> : k \in Keys \cup Cities \cup ChunkHeads }

\* <&str as Hashed>::compute_hash, for the keys above
compute_hash(key) == (CHOOSE p \in HashMemo : p[1] = key)[2]

(***************************************************************************)
(* Option<T>: None is the empty sequence, Some(x) the one-element one.     *)
(***************************************************************************)
None == << >>

Some(x) == << x >>

(***************************************************************************)
(* Table<N, A, B> (hashish.rs).  N is the capacity, a const generic of the *)
(* source; the model instantiates it small so that probe sequences wrap    *)
(* around the store and the table can run full.                            *)
(***************************************************************************)
N == 5

Slots == 0..(N - 1)

\* Entry::default with the value type's Default::default()
EntryDefault(dflt) == [key |-> None, value |-> dflt]

\* Table::new
new(dflt) == [store |-> [i \in Slots |-> EntryDefault(dflt)], collisions |-> 0]

\* hash % N, computed on the word
home_slot(hash) == WordMod(hash, N)

\* (index + hash.reverse_bits()) % N, computed on the word.  The addition is
\* a usize addition: `overflow` tells whether the sum left the machine word,
\* `index` is the result when it wraps.
probe_step(index, hash) ==
    LET s == WordAdd(WordOfNat(index), reverse_bits(hash))
    IN  [overflow |-> s.overflow, index |-> WordMod(s.sum, N)]

\* both, computed once for the hashes of HashMemo
HomeMemo == { << p[2], home_slot(p[2]) >> : p \in HashMemo }

ProbeMemo == { << p[2], i, probe_step(i, p[2]) >> : p \in HashMemo, i \in Slots }

\* the probe loops as they would be if they all started at slot 0
home_first_slot(hash) == 0

\* let mut index = hash % N
home(hash) ==
    (CHOOSE q \in HomeMemo : q[1] = hash)[2]

\* index = (index + hash.reverse_bits()) % N
probe_advance(index, hash) ==
    (CHOOSE q \in ProbeMemo : q[1] = hash /\ q[2] = index)[3]

(***************************************************************************)
(* The probe loops.  Each operator is the loop of one method, entered at   *)
(* `index`; `seen` is the set of indices the loop has already advanced     *)
(* from.  The store does not change while a loop probes, so a loop that    *)
(* comes back to an index in `seen` never ends: that is reported as the    *)
(* outcome "diverges".  oc tells whether overflow checks are compiled in.  *)
(***************************************************************************)
\* insert, line 66, as it would be without the comparison of the keys
insert_probes_any(e, key) == e.key # None

\* insert, line 66: e.key.is_some_and(|k| k != key)
insert_probes(e, key) == e.key # None /\ e.key[1] # key

\* insert, lines 70-71, as it would be if it wrote the entry to the next
\* slot as well
insert_store_two(t, index, key, value) ==
    [t EXCEPT !.store[index] = [key |-> Some(key), value |-> value],
              !.store[(index + 1) % N] = [key |-> Some(key), value |-> value]]

\* insert, lines 70-71: e.key = Some(key); e.value = value
insert_store(t, index, key, value) ==
    [t EXCEPT !.store[index] = [key |-> Some(key), value |-> value]]

RECURSIVE insert_loop(_, _, _, _, _, _, _)
insert_loop(t, key, value, hash, index, seen, oc) ==
    LET e == t.store[index]
    IN  IF insert_probes(e, key)
        THEN IF index \in seen
             THEN [outcome |-> "diverges", t |-> t]
             ELSE LET a == probe_advance(index, hash)
                  IN  IF a.overflow /\ oc
                      THEN [outcome |-> "panics", t |-> t]
                      ELSE insert_loop(t, key, value, hash, a.index,
                                       seen \cup {index}, oc)
        ELSE [outcome |-> "returns", t |-> insert_store(t, index, key, value)]

\* Table::insert
insert(t, key, value, oc) ==
    LET hash == compute_hash(key)
    IN  insert_loop(t, key, value, hash, home(hash), {}, oc)

\* get, lines 86-94: what the loop does on the slot it looks at
get_arm(e, key) ==
    IF e.key # None
    THEN IF e.key[1] = key THEN "hit" ELSE "miss"
    ELSE "advance"

RECURSIVE get_loop(_, _, _, _, _, _)
get_loop(t, key, hash, index, seen, oc) ==
    LET e   == t.store[index]
        arm == get_arm(e, key)
    IN  CASE arm = "hit"  -> [outcome |-> "returns", ret |-> Some(e.value)]
          [] arm = "miss" -> [outcome |-> "returns", ret |-> None]
          [] arm = "advance" ->
                IF index \in seen
                THEN [outcome |-> "diverges", ret |-> None]
                ELSE LET a == probe_advance(index, hash)
                     IN  IF a.overflow /\ oc
                         THEN [outcome |-> "panics", ret |-> None]
                         ELSE get_loop(t, key, hash, a.index, seen \cup {index}, oc)

\* Table::get
get(t, key, oc) ==
    LET hash == compute_hash(key)
    IN  get_loop(t, key, hash, home(hash), {}, oc)

\* get_mut, as it would be if it stopped on a slot held by another key
get_mut_arm_stops(e, key) ==
    IF e.key # None
    THEN IF e.key[1] = key THEN "hit" ELSE "miss"
    ELSE "miss"

\* get_mut, lines 107-115: what the loop does on the slot it looks at
get_mut_arm(e, key) ==
    IF e.key # None
    THEN IF e.key[1] = key THEN "hit" ELSE "advance"
    ELSE "miss"

RECURSIVE get_mut_loop(_, _, _, _, _, _)
get_mut_loop(t, key, hash, index, seen, oc) ==
    LET e   == t.store[index]
        arm == get_mut_arm(e, key)
    IN  CASE arm = "hit"  -> [outcome |-> "returns", ret |-> Some(index)]
          [] arm = "miss" -> [outcome |-> "returns", ret |-> None]
          [] arm = "advance" ->
                IF index \in seen
                THEN [outcome |-> "diverges", ret |-> None]
                ELSE LET a == probe_advance(index, hash)
                     IN  IF a.overflow /\ oc
                         THEN [outcome |-> "panics", ret |-> None]
                         ELSE get_mut_loop(t, key, hash, a.index,
                                           seen \cup {index}, oc)

\* Table::get_mut; the &mut B it returns is the index of the slot it points into
get_mut(t, key, oc) ==
    LET hash == compute_hash(key)
    IN  get_mut_loop(t, key, hash, home(hash), {}, oc)

\* emplace, line 128, as it would be without the increment
count_collision_never(t) == t

\* emplace, line 128: self.collisions += 1
count_collision(t) == [t EXCEPT !.collisions = @ + 1]

\* emplace, as it would be if it never recognised the key of a slot
emplace_arm_no_match(e, key) ==
    IF e.key # None THEN "advance" ELSE "vacant"

\* emplace, lines 124-134: what the loop does on the slot it looks at
emplace_arm(e, key) ==
    IF e.key # None
    THEN IF e.key[1] = key THEN "hit" ELSE "advance"
    ELSE "vacant"

RECURSIVE emplace_loop(_, _, _, _, _, _)
emplace_loop(t, key, hash, index, seen, oc) ==
    LET e   == t.store[index]
        arm == emplace_arm(e, key)
    IN  CASE arm = "hit" -> [outcome |-> "returns", t |-> t, ret |-> Some(index)]
          [] arm = "vacant" ->
                [outcome |-> "returns",
                 t |-> [t EXCEPT !.store[index].key = Some(key)],
                 ret |-> Some(index)]
          [] arm = "advance" ->
                IF index \in seen
                THEN [outcome |-> "diverges", t |-> t, ret |-> None]
                ELSE LET t1 == count_collision(t)
                         a  == probe_advance(index, hash)
                     IN  IF a.overflow /\ oc
                         THEN [outcome |-> "panics", t |-> t1, ret |-> None]
                         ELSE emplace_loop(t1, key, hash, a.index,
                                           seen \cup {index}, oc)

\* Table::emplace; the &mut B it returns is the index of the slot it points into
emplace(t, key, oc) ==
    LET hash == compute_hash(key)
    IN  emplace_loop(t, key, hash, home(hash), {}, oc)

\* Table::collision_count
collision_count(t) == t.collisions

\* TableIterator::next from position `index`: the item and the new position
RECURSIVE iter_next(_, _)
iter_next(t, index) ==
    IF index < N
    THEN IF t.store[index].key # None
         THEN [item |-> Some(<< t.store[index].key[1], t.store[index].value >>),
               index |-> index + 1]
         ELSE iter_next(t, index + 1)
    ELSE [item |-> None, index |-> index]

\* Table::iter() driven to exhaustion, as a for loop drives it
RECURSIVE iter_from(_, _)
iter_from(t, index) ==
    LET r == iter_next(t, index)
    IN  IF r.item = None THEN << >> ELSE << r.item[1] >> \o iter_from(t, r.index)

\* iter() as it would be if it started one slot after the first
iter_start_after_first == 0 + 1

\* Table::iter: TableIterator { inner: self, index: 0 }
iter_start == 0

iter(t) == iter_from(t, iter_start)

\* helpers over a store
Occupied(t) == { i \in Slots : t.store[i].key # None }

SlotsOf(t, key) == { i \in Slots : t.store[i].key = Some(key) }

Resident(t) == { t.store[i].key[1] : i \in Occupied(t) }

(***************************************************************************)
(* chunkify (main.rs).  A slice &extent[base..end] is kept as the byte     *)
(* range it views: [start |-> base, end |-> end], 0-based, end exclusive.  *)
(***************************************************************************)
Min(a, b) == IF a < b THEN a ELSE b

\* while offset < extent_size && extent[offset] != b'\n' { offset += 1 }
RECURSIVE scan_newline(_, _)
scan_newline(extent, offset) ==
    IF offset < Len(extent) /\ extent[offset + 1] # "\n"
    THEN scan_newline(extent, offset + 1)
    ELSE offset

\* &extent[base..end]: Rust panics unless base <= end <= extent.len()
slice_in_range(extent, base, end) == base <= end /\ end <= Len(extent)

\* the body of `for _ in 0..count`, `todo` iterations still to run
RECURSIVE chunkify_loop(_, _, _, _, _, _)
chunkify_loop(extent, chunk_size, base, offset, todo, chunks) ==
    IF todo = 0
    THEN [outcome |-> "returns", chunks |-> chunks]
    ELSE LET o == scan_newline(extent, offset)
         IN  IF ~ slice_in_range(extent, base, o + 1)
             THEN [outcome |-> "panics", chunks |-> chunks]
             ELSE chunkify_loop(extent, chunk_size, o + 1,
                                o + Min(chunk_size, Len(extent) - (o + 1)),
                                todo - 1,
                                Append(chunks, [start |-> base, end |-> o + 1]))

\* chunkify(extent, count); extent_size / count panics when count is 0
chunkify(extent, count) ==
    IF count = 0
    THEN [outcome |-> "panics", chunks |-> << >>]
    ELSE chunkify_loop(extent, Len(extent) \div count, 0, Len(extent) \div count,
                       count, << >>)

\* the bytes a slice views
SliceBytes(extent, c) == SubSeq(extent, c.start + 1, c.end)

(***************************************************************************)
(* f32 (main.rs).  A finite f32 is kept as its significand and exponent:   *)
(* [m, e] stands for m * 2^e, with 2^23 <= |m| < 2^24, and [0, 0] for 0.0. *)
(* Every operation rounds its exact result to the nearest such value, ties *)
(* to the even significand, as the hardware does.  The values of the model *)
(* stay far from the subnormal and the infinite range; NaN never arises.   *)
(***************************************************************************)
\* f32::MANTISSA_DIGITS
F32Digits == 24

F32Zero == [m |-> 0, e |-> 0]

Abs(x) == IF x < 0 THEN 0 - x ELSE x

Sign(x) == IF x < 0 THEN -1 ELSE 1

\* the f32 nearest to sign * (q + rn / rd) * 2^e, where 0 <= rn < rd
RECURSIVE f32_round(_, _, _, _, _)
f32_round(sign, q, rn, rd, e) ==
    IF q = 0 /\ rn = 0 THEN F32Zero
    ELSE IF q < Pow2(F32Digits - 1)
    THEN f32_round(sign, 2 * q + (2 * rn) \div rd, (2 * rn) % rd, rd, e - 1)
    ELSE IF q >= Pow2(F32Digits)
    THEN f32_round(sign, q \div 2, (q % 2) * rd + rn, 2 * rd, e + 1)
    ELSE LET up == 2 * rn > rd \/ (2 * rn = rd /\ q % 2 = 1)
         IN  IF ~ up THEN [m |-> sign * q, e |-> e]
             ELSE IF q + 1 = Pow2(F32Digits)
             THEN [m |-> sign * Pow2(F32Digits - 1), e |-> e + 1]
             ELSE [m |-> sign * (q + 1), e |-> e]

\* n as f32, for an integer n
f32_from(n) == f32_round(Sign(n), Abs(n), 0, 1, 0)

\* a + b.  The operand of the smaller exponent is aligned to three digits
\* below the other's last, the digits it loses kept as a sticky last digit.
f32_add(a, b) ==
    IF a.m = 0 THEN b
    ELSE IF b.m = 0 THEN a
    ELSE LET hi == IF a.e >= b.e THEN a ELSE b
             lo == IF a.e >= b.e THEN b ELSE a
             d  == hi.e - lo.e
             x  == 8 * hi.m
             y  == IF d <= 3 THEN lo.m * Pow2(3 - d)
                   ELSE IF d - 3 > F32Digits THEN Sign(lo.m)
                   ELSE LET t == Abs(lo.m) \div Pow2(d - 3)
                            sticky == Abs(lo.m) % Pow2(d - 3) # 0
                        IN  Sign(lo.m) * (IF sticky /\ t % 2 = 0 THEN t + 1 ELSE t)
             s  == x + y
         IN  f32_round(Sign(s), Abs(s), 0, 1, hi.e - 3)

\* 10.0 * a
f32_mul10(a) == f32_round(Sign(a.m), 10 * Abs(a.m), 0, 1, a.e)

\* a / 10.0
f32_div10(a) == f32_round(Sign(a.m), Abs(a.m) \div 10, Abs(a.m) % 10, 10, a.e)

\* -a
f32_neg(a) == [m |-> 0 - a.m, e |-> a.e]

\* a < b
f32_lt(a, b) ==
    IF a.m <= 0 /\ b.m >= 0 THEN a.m < b.m
    ELSE IF a.m >= 0 /\ b.m <= 0 THEN FALSE
    ELSE IF a.m > 0 THEN a.e < b.e \/ (a.e = b.e /\ a.m < b.m)
    ELSE a.e > b.e \/ (a.e = b.e /\ a.m < b.m)

\* f32::min and f32::max
f32_min(a, b) == IF f32_lt(b, a) THEN b ELSE a

f32_max(a, b) == IF f32_lt(a, b) THEN b ELSE a

\* f32::MAX and f32::MIN
F32_MAX == [m |-> Pow2(F32Digits) - 1, e |-> 104]

F32_MIN == f32_neg(F32_MAX)

(***************************************************************************)
(* Stat (main.rs).                                                         *)
(***************************************************************************)
\* Stat::DEFAULT_INSTANCE, which is Stat::default()
DEFAULT_INSTANCE == [min |-> F32_MAX, sum |-> F32Zero, count |-> 0, max |-> F32_MIN]

\* Stat::add
Stat_add(self, x) ==
    [min   |-> IF f32_lt(self.min, x) THEN self.min ELSE x,
     sum   |-> f32_add(self.sum, x),
     count |-> self.count + 1,
     max   |-> IF f32_lt(x, self.max) THEN self.max ELSE x]

\* Stat::merge_with as it would be with `self.sum = rhs.sum`
Stat_merge_with_drops_sum(self, rhs) ==
    [min   |-> f32_min(self.min, rhs.min),
     sum   |-> rhs.sum,
     count |-> self.count + rhs.count,
     max   |-> f32_max(self.max, rhs.max)]

\* Stat::merge_with: f32::min, +=, +=, f32::max
Stat_merge_with(self, rhs) ==
    [min   |-> f32_min(self.min, rhs.min),
     sum   |-> f32_add(self.sum, rhs.sum),
     count |-> self.count + rhs.count,
     max   |-> f32_max(self.max, rhs.max)]

(***************************************************************************)
(* StatChunk::merge_with (main.rs): for (city, stat) in data.iter()        *)
(*     { self.data.emplace(&city).merge_with(&stat) }                      *)
(* `items` is what is left of data.iter().                                 *)
(***************************************************************************)
\* self.data.emplace(&city).merge_with(&stat), for one item of data.iter()
merge_item(t, item, oc) ==
    LET r == emplace(t, item[1], oc)
    IN  IF r.outcome # "returns"
        THEN [outcome |-> r.outcome, t |-> r.t]
        ELSE [outcome |-> "returns",
              t |-> [r.t EXCEPT !.store[r.ret[1]].value = Stat_merge_with(@, item[2])]]

RECURSIVE merge_items(_, _, _)
merge_items(t, items, oc) ==
    IF items = << >>
    THEN [outcome |-> "returns", t |-> t]
    ELSE LET next(r) == IF r.outcome # "returns" THEN r
                        ELSE merge_items(r.t, Tail(items), oc)
         IN  next(merge_item(t, Head(items), oc))

StatChunk_merge_with(self, data, oc) == merge_items(self, iter(data), oc)

(***************************************************************************)
(* parse_temperature (main.rs).  image[i] and &image[i..] panic when i is  *)
(* out of range; b - b'0' is a u8 subtraction, which panics below zero     *)
(* with overflow checks and wraps without.                                 *)
(***************************************************************************)
\* (b - b'0') as f32, for the byte of character c; -1 stands for the panic
digit(c, oc) ==
    LET b == ord(c)
    IN  IF b >= 48 THEN b - 48
        ELSE IF oc THEN -1 ELSE b - 48 + 256

parse_temperature(image, oc) ==
    LET failed == [outcome |-> "panics", value |-> F32Zero, remains |-> << >>]
    IN  IF Len(image) < 1 THEN failed
        ELSE
        LET neg   == image[1] = "-"
            index == IF neg THEN 2 ELSE 1
        IN  IF Len(image) < index + 1 THEN failed
            ELSE
            LET d0    == digit(image[index], oc)
                point == image[index + 1] = "."
                need  == IF point THEN index + 3 ELSE index + 4
            IN  IF Len(image) < need THEN failed
                ELSE
                LET d1 == digit(image[index + 1], oc)
                    d2 == digit(image[IF point THEN index + 2 ELSE index + 3], oc)
                    tenth == f32_div10(f32_from(d2))
                    float == IF point
                             THEN f32_add(f32_from(d0), tenth)
                             ELSE f32_add(f32_add(f32_mul10(f32_from(d0)),
                                                  f32_from(d1)), tenth)
                IN  IF d0 < 0 \/ d2 < 0 \/ (~ point /\ d1 < 0) THEN failed
                    ELSE [outcome |-> "returns",
                          value   |-> IF neg THEN f32_neg(float) ELSE float,
                          remains |-> SubSeq(image, need + 1, Len(image))]

(***************************************************************************)
(* aggregate_chunk (main.rs).                                              *)
(***************************************************************************)
\* the position the scan for b';' starts from
CityScanStart == 3

\* while city_pos < cursor.len() && cursor[city_pos] != b';' { city_pos += 1 }
RECURSIVE scan_semicolon(_, _)
scan_semicolon(cursor, city_pos) ==
    IF city_pos < Len(cursor) /\ cursor[city_pos + 1] # ";"
    THEN scan_semicolon(cursor, city_pos + 1)
    ELSE city_pos

\* stat_map.emplace(city) as it would be without .add(temperature)
emplace_without_add(stat_map, city, temperature, oc) ==
    LET skip(r) == [outcome |-> r.outcome, t |-> r.t]
    IN  skip(emplace(stat_map, city, oc))

\* stat_map.emplace(city).add(temperature)
emplace_add(stat_map, city, temperature, oc) ==
    LET add(r) ==
            IF r.outcome # "returns"
            THEN [outcome |-> r.outcome, t |-> r.t]
            ELSE [outcome |-> "returns",
                  t |-> [r.t EXCEPT !.store[r.ret[1]].value = Stat_add(@, temperature)]]
    IN  add(emplace(stat_map, city, oc))

\* one turn of the loop: "continues" with the cursor moved past a record,
\* or "returns" at the break
aggregate_turn(stat_map, cursor, oc) ==
    LET city_pos == scan_semicolon(cursor, CityScanStart)
    IN  IF city_pos < Len(cursor)
        THEN LET city == SubSeq(cursor, 1, city_pos)
                 p    == parse_temperature(SubSeq(cursor, city_pos + 2, Len(cursor)), oc)
             IN  IF p.outcome # "returns"
                 THEN [outcome |-> p.outcome, t |-> stat_map, cursor |-> cursor]
                 ELSE LET r == emplace_add(stat_map, city, p.value, oc)
                      IN  IF r.outcome # "returns"
                          THEN [outcome |-> r.outcome, t |-> r.t, cursor |-> cursor]
                          ELSE [outcome |-> "continues", t |-> r.t,
                                cursor |-> p.remains]
        ELSE [outcome |-> "returns", t |-> stat_map, cursor |-> cursor]

RECURSIVE aggregate_loop(_, _, _)
aggregate_loop(stat_map, cursor, oc) ==
    LET next(r) == IF r.outcome = "continues"
                   THEN aggregate_loop(r.t, r.cursor, oc)
                   ELSE [outcome |-> r.outcome, t |-> r.t]
    IN  next(aggregate_turn(stat_map, cursor, oc))

aggregate_chunk(chunk, oc) == aggregate_loop(new(DEFAULT_INSTANCE), chunk, oc)

(***************************************************************************)
(* State.                                                                  *)
(*   overflow_checks, status   the build and whether the program still runs*)
(*   table .. idem             the Table<N, &str, i32> of Spec, its caller *)
(*   extent .. chunked         the arguments and the result of chunkify    *)
(*   tables .. driver          the worker threads and the driver of main   *)
(***************************************************************************)
VARIABLES
    overflow_checks,  \* whether the build checks integer overflow (debug) or wraps
    status,           \* "running", or how the program stopped: "diverged", "panicked"
    table,            \* the Table: store and collisions
    last,             \* the last call: method, key, argument, outcome, return value,
                      \* and (ghost) the value the key held when the call was made
    ref,              \* the live &mut B handed out by get_mut / emplace (a slot index)
    shadow,           \* ghost: for each key, the value the calls so far gave it
    fresh,            \* ghost: every call so far was an insert of a new key, or a get
    idem,             \* ghost: how far a run of emplace(k), write, emplace(k) has got
    extent,           \* the input bytes, a sequence of one-character strings
    count,            \* the partition count
    chunks,           \* the slices chunkify returned
    chunked,          \* "pending", or how chunkify ended: "returns", "panics"
    tables,           \* per worker: None, or Some(the StatChunk data it returned)
    wstate,           \* per worker: "unspawned", "running", "finished", "panicked",
                      \* "diverged", "joined", "merged"
    acc,              \* the accumulator of the fold: None, or Some(StatChunk data)
    driver,           \* where the driver is: [pc, i]
    access,           \* ghost: the table accesses of the last step, each
                      \* [thread, table, mode]
    iterator,         \* the live TableIterator over `table`: None, or Some(index)
    yielded,          \* ghost: the items the live iterator has returned so far
    stats,            \* three Stat values a, b, c
    merged,           \* what merge_with made of them, per order of merging
    cursors,          \* per worker: the cursor of aggregate_chunk, the bytes left
    stat_maps,        \* per worker: the stat_map of aggregate_chunk while it runs
    pending           \* the items of data.iter() that merge_with has yet to take

gvars == << overflow_checks, status >>

tvars == << table, last, ref, shadow, fresh, idem >>

cvars == << extent, count, chunks, chunked >>

pvars == << tables, wstate, acc, driver, access >>

ivars == << iterator, yielded >>

rvars == << stats, merged >>

avars == << cursors, stat_maps, pending >>

vars == << gvars, tvars, cvars, pvars, ivars, rvars, avars >>

\* the main thread, among the threads 1, 2, ... of the workers
Driver == 0

\* the accumulator of the reduce, among the tables 1, 2, ... of the workers
Accumulator == 0

\* a thread reading or writing a table
Access(thread, tbl, mode) == [thread |-> thread, table |-> tbl, mode |-> mode]

\* the variables a specification does not use, at rest
TableIdle ==
    /\ table = new(0)
    /\ last = << >>
    /\ ref = None
    /\ shadow = << >>
    /\ fresh = TRUE
    /\ idem = "none"
    /\ iterator = None
    /\ yielded = << >>

StatIdle ==
    /\ stats = << >>
    /\ merged = << >>

AggregateIdle ==
    /\ cursors = << >>
    /\ stat_maps = << >>
    /\ pending = << >>

ChunkifyIdle ==
    /\ extent = << >>
    /\ count = 0
    /\ chunks = << >>
    /\ chunked = "idle"

PipelineIdle ==
    /\ tables = << >>
    /\ wstate = << >>
    /\ acc = None
    /\ driver = [pc |-> "idle", i |-> 0]
    /\ access = {}

(***************************************************************************)
(* Specification Spec: one Table<N, &str, i32>, as in test::testies,       *)
(* under arbitrary calls of insert, get, get_mut, emplace and writes       *)
(* through the returned &mut i32.                                          *)
(***************************************************************************)
Values == { 1, 2 }

\* i32::default()
DefaultI32 == 0

\* emplace is not called once collision_count() has reached this
MaxCollisions == 3

Stopped(outcome) ==
    CASE outcome = "returns"  -> "running"
      [] outcome = "diverges" -> "diverged"
      [] outcome = "panics"   -> "panicked"

\* the value `key` holds in t, if it is resident
ValueOf(t, key) ==
    IF SlotsOf(t, key) = {} THEN None
    ELSE Some(t.store[CHOOSE i \in SlotsOf(t, key) : TRUE].value)

Call(op, key, arg, outcome, ret, old) ==
    [op |-> op, key |-> key, arg |-> arg, outcome |-> outcome, ret |-> ret,
     old |-> old]

TableInit ==
    /\ overflow_checks \in BOOLEAN
    /\ status = "running"
    /\ table = new(DefaultI32)
    /\ last = Call("new", << >>, None, "returns", None, None)
    /\ ref = None
    /\ shadow = [k \in Keys |-> None]
    /\ fresh = TRUE
    /\ idem = "none"
    /\ iterator = None
    /\ yielded = << >>

\* h.insert(key, value)
Insert(key, value) ==
    /\ status = "running"
    /\ LET r == insert(table, key, value, overflow_checks)
       IN  /\ table' = r.t
           /\ status' = Stopped(r.outcome)
           /\ last' = Call("insert", key, Some(value), r.outcome, None,
                           ValueOf(table, key))
           /\ shadow' = IF r.outcome = "returns"
                        THEN [shadow EXCEPT ![key] = Some(value)]
                        ELSE shadow
    /\ ref' = None
    /\ fresh' = (fresh /\ shadow[key] = None)
    /\ idem' = "none"
    /\ UNCHANGED << overflow_checks, cvars, pvars, ivars, rvars, avars >>

\* h.get(&key)
Get(key) ==
    /\ status = "running"
    /\ LET r == get(table, key, overflow_checks)
       IN  /\ status' = Stopped(r.outcome)
           /\ last' = Call("get", key, None, r.outcome, r.ret, ValueOf(table, key))
    /\ ref' = None
    /\ idem' = "none"
    /\ UNCHANGED << table, overflow_checks, shadow, fresh, cvars, pvars, ivars, rvars, avars >>

\* h.get_mut(&key)
GetMut(key) ==
    /\ status = "running"
    /\ LET r == get_mut(table, key, overflow_checks)
       IN  /\ status' = Stopped(r.outcome)
           /\ last' = Call("get_mut", key, None, r.outcome, r.ret,
                           ValueOf(table, key))
           /\ ref' = r.ret
    /\ fresh' = FALSE
    /\ idem' = "none"
    /\ UNCHANGED << table, overflow_checks, shadow, cvars, pvars, ivars, rvars, avars >>

\* h.emplace(key)
Emplace(key) ==
    /\ status = "running"
    /\ collision_count(table) < MaxCollisions
    /\ LET r == emplace(table, key, overflow_checks)
       IN  /\ table' = r.t
           /\ status' = Stopped(r.outcome)
           /\ last' = Call("emplace", key, None, r.outcome, r.ret,
                           ValueOf(table, key))
           /\ ref' = r.ret
           /\ shadow' = IF r.outcome = "returns" /\ shadow[key] = None
                        THEN [shadow EXCEPT ![key] = Some(DefaultI32)]
                        ELSE shadow
           /\ idem' = IF r.outcome # "returns" THEN "none"
                      ELSE IF shadow[key] = None THEN "created"
                      ELSE IF idem = "mutated" /\ last.key = key THEN "again"
                      ELSE "none"
    /\ fresh' = FALSE
    /\ UNCHANGED << overflow_checks, cvars, pvars, ivars, rvars, avars >>

\* *e = value, through the &mut i32 that the last get_mut or emplace returned
WriteRef(value) ==
    /\ status = "running"
    /\ ref # None
    /\ table' = [table EXCEPT !.store[ref[1]].value = value]
    /\ last' = Call("write", last.key, Some(value), "returns", ref,
                    ValueOf(table, last.key))
    /\ shadow' = [shadow EXCEPT ![last.key] = Some(value)]
    /\ idem' = IF idem \in { "created", "mutated" } THEN "mutated" ELSE "none"
    /\ UNCHANGED << overflow_checks, status, ref, fresh, cvars, pvars, ivars, rvars, avars >>

Init == TableInit /\ ChunkifyIdle /\ PipelineIdle /\ StatIdle /\ AggregateIdle

Next ==
    \/ \E key \in Keys, value \in Values : Insert(key, value)
    \/ \E key \in Keys : Get(key)
    \/ \E key \in Keys : GetMut(key)
    \/ \E key \in Keys : Emplace(key)
    \/ \E value \in Values : WriteRef(value)

Spec == Init /\ [][Next]_vars

(***************************************************************************)
(* Specification SpecChunkify: chunkify called once on every extent over   *)
(* ExtentBytes of up to MaxExtent bytes, with every count in 1..MaxCount.  *)
(***************************************************************************)
MaxExtent == 11

MaxCount == 4

\* a record byte and the line terminator: chunkify tells no other bytes apart
ExtentBytes == { "a", "\n" }

Extents == UNION { [1..n -> ExtentBytes] : n \in 0..MaxExtent }

ChunkifyInit ==
    /\ extent \in Extents
    /\ count \in 1..MaxCount
    /\ chunks = << >>
    /\ chunked = "pending"

\* let chunks = chunkify(&extent, count)
Chunkify ==
    /\ chunked = "pending"
    /\ LET r == chunkify(extent, count)
       IN  /\ chunks' = r.chunks
           /\ chunked' = r.outcome
    /\ UNCHANGED << extent, count, gvars, tvars, pvars, ivars, rvars, avars >>

InitChunkify ==
    /\ overflow_checks = FALSE
    /\ status = "running"
    /\ TableIdle
    /\ ChunkifyInit
    /\ PipelineIdle
    /\ StatIdle
    /\ AggregateIdle

NextChunkify == Chunkify

SpecChunkify == InitChunkify /\ [][NextChunkify]_vars

(***************************************************************************)
(* Claims about the Table, checked under Spec.                             *)
(***************************************************************************)
HomeOf(key) == home(compute_hash(key))

\* C1: insert/get round trip.  After inserts of distinct keys on a fresh
\* table (fewer than N of them), get(key) of an inserted key returns
\* Some(value), also when the key's home slot holds another key.
C1_InsertGetRoundTrip ==
    ( /\ fresh
      /\ last.op = "get"
      /\ shadow[last.key] # None
      /\ Cardinality(Resident(table)) < N )
    => (last.outcome = "returns" /\ last.ret = shadow[last.key])

\* C2: get(key) of a key that was never inserted terminates and returns None.
C2_GetAbsentReturnsNone ==
    (last.op = "get" /\ shadow[last.key] = None)
    => (last.outcome = "returns" /\ last.ret = None)

\* C3: overwrite semantics.  With fewer than N distinct keys no key is held
\* by more than one slot, and an insert on a resident key writes the new
\* value into the key's slot and occupies no further slot.
C3_Step ==
    Cardinality(Resident(table')) < N =>
        /\ \A k \in Keys : Cardinality(SlotsOf(table', k)) <= 1
        /\ ( /\ last'.op = "insert"
             /\ last'.outcome = "returns"
             /\ last'.key \in Resident(table) )
           => /\ SlotsOf(table', last'.key) = SlotsOf(table, last'.key)
              /\ ValueOf(table', last'.key) = last'.arg
              /\ Occupied(table') = Occupied(table)

C3_Overwrite == [][C3_Step]_vars

\* an insert has overwritten a resident key's value with a different one
C3_Witness ==
    /\ last.op = "insert"
    /\ last.outcome = "returns"
    /\ last.old # None
    /\ last.old # last.arg
    /\ ValueOf(table, last.key) = last.arg
    /\ Cardinality(Occupied(table)) >= 2

\* C4: emplace idempotent creation.  emplace(key) on an absent key occupies
\* exactly one new slot, holding the default value; emplace(key) on a
\* resident key returns the one slot that holds the key, with the value last
\* given to it (so a write through an earlier reference is seen), and
\* changes no slot.
C4_Step ==
    (last'.op = "emplace" /\ last'.outcome = "returns") =>
        LET key == last'.key
            r   == last'.ret[1]
        IN  /\ last'.ret # None
            /\ IF key \notin Resident(table)
               THEN /\ r \notin Occupied(table)
                    /\ Occupied(table') = Occupied(table) \cup { r }
                    /\ table'.store[r] = [key |-> Some(key), value |-> DefaultI32]
                    /\ \A i \in Slots \ { r } : table'.store[i] = table.store[i]
               ELSE /\ SlotsOf(table, key) = { r }
                    /\ table'.store = table.store
                    /\ Some(table'.store[r].value) = shadow[key]

C4_EmplaceIdempotent == [][C4_Step]_vars

\* emplace(k) created k, a value was written through the reference, and a
\* second emplace(k) has returned the slot that holds the written value
C4_Witness ==
    /\ idem = "again"
    /\ last.op = "emplace"
    /\ last.old # None
    /\ last.old # Some(DefaultI32)
    /\ Some(table.store[last.ret[1]].value) = last.old

\* C5: get_mut returns Some exactly when the key is resident, the reference
\* points into the slot holding the key, and a value written through a
\* reference is the value then stored for the key.
C5_GetMut ==
    /\ (last.op = "get_mut" /\ last.outcome = "returns") =>
          /\ (last.ret # None) <=> (last.key \in Resident(table))
          /\ last.ret # None => table.store[last.ret[1]].key = Some(last.key)
    /\ last.op = "write" =>
          /\ SlotsOf(table, last.key) = { last.ret[1] }
          /\ ValueOf(table, last.key) = last.arg

\* get_mut has found a key that does not sit in its home slot
C5_Witness ==
    /\ last.op = "get_mut"
    /\ last.outcome = "returns"
    /\ last.ret # None
    /\ last.ret[1] # HomeOf(last.key)
    /\ table.store[HomeOf(last.key)].key # None

(***************************************************************************)
(* Claims about chunkify, checked under SpecChunkify.                      *)
(***************************************************************************)
\* the extent is a sequence of newline-terminated records
NewlineTerminated(e) == e = << >> \/ e[Len(e)] = "\n"

\* a slice boundary (a byte offset) that does not fall inside a record
AtRecordStart(e, pos) == pos = 0 \/ e[pos] = "\n"

Aligned(e, c) ==
    \/ c.start = c.end
    \/ AtRecordStart(e, c.start) /\ AtRecordStart(e, c.end)

\* C8: chunk-boundary safety.  For any partition count and any extent,
\* chunkify completes without an out-of-range slice, and every slice starts
\* at byte 0 or right after a line terminator and ends right after one (or
\* is empty).
C8_ChunkBoundarySafety ==
    chunked # "pending" =>
        /\ chunked = "returns"
        /\ \A i \in 1..Len(chunks) : Aligned(extent, chunks[i])

\* C9: chunkify partitions a newline-terminated extent.  It returns exactly
\* `count` slices, the first from byte 0, each next one from where the one
\* before ended, the last one ending at the end of the extent.
C9_ChunkifyPartitions ==
    (chunked # "pending" /\ NewlineTerminated(extent)) =>
        /\ chunked = "returns"
        /\ Len(chunks) = count
        /\ chunks[1].start = 0
        /\ \A i \in 2..Len(chunks) : chunks[i].start = chunks[i - 1].end
        /\ chunks[Len(chunks)].end = Len(extent)

(***************************************************************************)
(* Specification SpecMerge: two StatTables, each populated as              *)
(* aggregate_chunk populates its own (emplace(city).add(temperature) per   *)
(* observation), are folded one after the other, in either order, into a   *)
(* third by StatChunk::merge_with.  `tables` keeps the two sources.         *)
(***************************************************************************)
\* the f32 nearest to n / 10
Decimal(n) == f32_round(Sign(n), Abs(n) \div 10, Abs(n) % 10, 10, 0)

\* temperatures: 1.0 and -2.5
Temperatures == { Decimal(10), Decimal(-25) }

\* the two sources hold at most this many observations together
MaxObservations == 3

Observations == UNION { [1..n -> Cities \X Temperatures] : n \in 0..MaxObservations }

\* a StatTable after the observations obs, each taken in as aggregate_chunk does
RECURSIVE populate(_, _, _)
populate(stat_map, obs, oc) ==
    IF obs = << >>
    THEN [outcome |-> "returns", t |-> stat_map]
    ELSE LET next(r) == IF r.outcome # "returns" THEN r
                        ELSE populate(r.t, Tail(obs), oc)
         IN  next(emplace_add(stat_map, Head(obs)[1], Head(obs)[2], oc))

MergeInit ==
    /\ \E o1 \in Observations, o2 \in Observations :
          /\ Len(o1) + Len(o2) <= MaxObservations
          /\ LET returned(r1, r2) ==
                     /\ r1.outcome = "returns"
                     /\ r2.outcome = "returns"
                     /\ tables = << Some(r1.t), Some(r2.t) >>
             IN  returned(populate(new(DEFAULT_INSTANCE), o1, overflow_checks),
                          populate(new(DEFAULT_INSTANCE), o2, overflow_checks))
    /\ wstate = << "finished", "finished" >>
    /\ acc = Some(new(DEFAULT_INSTANCE))
    /\ driver = [pc |-> "folding", i |-> 0]
    /\ access = {}

\* acc.merge_with(StatChunk { data: tables[i] })
MergeSource(i) ==
    /\ status = "running"
    /\ driver.pc = "folding"
    /\ wstate[i] = "finished"
    /\ LET r == StatChunk_merge_with(acc[1], tables[i][1], overflow_checks)
       IN  /\ acc' = Some(r.t)
           /\ status' = Stopped(r.outcome)
    /\ wstate' = [wstate EXCEPT ![i] = "merged"]
    /\ driver' = [driver EXCEPT !.i = i]
    /\ access' = { Access(Driver, i, "read"), Access(Driver, Accumulator, "write") }
    /\ UNCHANGED << overflow_checks, tables, tvars, cvars, ivars, rvars, avars >>

InitMerge ==
    /\ overflow_checks \in BOOLEAN
    /\ status = "running"
    /\ TableIdle
    /\ ChunkifyIdle
    /\ MergeInit
    /\ StatIdle
    /\ AggregateIdle

NextMerge == \E i \in 1..2 : MergeSource(i)

SpecMerge == InitMerge /\ [][NextMerge]_vars

(***************************************************************************)
(* Claims about the merge of tables, checked under SpecMerge.              *)
(***************************************************************************)
\* the merge of two Aggregate Records, field by field
MergedRecord(a, b) ==
    [min   |-> IF f32_lt(b.min, a.min) THEN b.min ELSE a.min,
     sum   |-> f32_add(a.sum, b.sum),
     count |-> a.count + b.count,
     max   |-> IF f32_lt(a.max, b.max) THEN b.max ELSE a.max]

\* the record t holds for key, the identity when it holds none
RecordOf(t, key) ==
    IF SlotsOf(t, key) = {} THEN DEFAULT_INSTANCE
    ELSE t.store[CHOOSE i \in SlotsOf(t, key) : TRUE].value

BothMerged ==
    /\ driver.pc = "folding"
    /\ status = "running"
    /\ \A i \in 1..2 : wstate[i] = "merged"

\* C6: once both sources have been merged into the accumulator, the keys of
\* the accumulator are exactly the keys of the two sources, each in one slot,
\* and the record of each is the merge of the records the two sources hold
\* for it, a source that does not hold the key counting as the identity.
C6_FullTableMerge ==
    BothMerged =>
        /\ Resident(acc[1]) = Resident(tables[1][1]) \cup Resident(tables[2][1])
        /\ \A k \in Resident(acc[1]) :
              /\ Cardinality(SlotsOf(acc[1], k)) = 1
              /\ RecordOf(acc[1], k) =
                     MergedRecord(RecordOf(tables[1][1], k), RecordOf(tables[2][1], k))

\* both sources merged, with a key they share, a key only one of them holds,
\* and a collision met while merging
C6_Witness ==
    /\ BothMerged
    /\ Resident(tables[1][1]) \cap Resident(tables[2][1]) # {}
    /\ Resident(tables[1][1]) \ Resident(tables[2][1]) # {}
    /\ collision_count(acc[1]) > 0

(***************************************************************************)
(* Specification SpecPipeline: the closure main hands to thread::scope,    *)
(* with the input bytes and the chunk count as parameters:                 *)
(*     chunkify(&data, chunk_count).iter()                                 *)
(*         .map(|chunk| s.spawn(|| aggregate_chunk(chunk)))                *)
(*         .collect::<Vec<_>>()                                            *)
(*         .into_iter().map(|handle| handle.join().unwrap())               *)
(*         .reduce(|mut p, q| { p.merge_with(q); p })                      *)
(* collect() spawns every worker before the first join; map and reduce are *)
(* lazy, so the driver joins worker 1, then for each later worker joins it *)
(* and merges its table before it turns to the next.  A worker is one      *)
(* step: it touches nothing but its own slice and its own table.           *)
(***************************************************************************)
\* "X;1.0\nY;-2.5\nX;3.0\n"
ScenarioExtent ==
    << "X", ";", "1", ".", "0", "\n",
       "Y", ";", "-", "2", ".", "5", "\n",
       "X", ";", "3", ".", "0", "\n" >>

\* "abc;1.0\naaa;-2.5\nabc;3.0\n"
CitiesExtent ==
    << "a", "b", "c", ";", "1", ".", "0", "\n",
       "a", "a", "a", ";", "-", "2", ".", "5", "\n",
       "a", "b", "c", ";", "3", ".", "0", "\n" >>

PipelineExtents == { ScenarioExtent, CitiesExtent }

Workers == 1..Len(chunks)

PipelineInit ==
    /\ extent \in PipelineExtents
    /\ count \in 1..MaxCount
    /\ chunks = << >>
    /\ chunked = "pending"
    /\ tables = << >>
    /\ wstate = << >>
    /\ acc = None
    /\ driver = [pc |-> "start", i |-> 0]
    /\ access = {}

\* chunkify(&data, chunk_count)
DriverChunkify ==
    /\ status = "running"
    /\ driver.pc = "start"
    /\ LET r == chunkify(extent, count)
       IN  /\ chunked' = r.outcome
           /\ status' = Stopped(r.outcome)
           /\ IF r.outcome = "returns"
              THEN /\ chunks' = r.chunks
                   /\ tables' = [i \in 1..Len(r.chunks) |-> None]
                   /\ wstate' = [i \in 1..Len(r.chunks) |-> "unspawned"]
                   /\ driver' = [pc |-> "spawn", i |-> 1]
              ELSE /\ driver' = [pc |-> "aborted", i |-> 0]
                   /\ UNCHANGED << chunks, tables, wstate >>
    /\ UNCHANGED << overflow_checks, extent, count, acc, access, tvars, ivars, rvars, avars >>

\* s.spawn(|| aggregate_chunk(chunk)), for the i-th chunk
Spawn(i) ==
    /\ status = "running"
    /\ driver = [pc |-> "spawn", i |-> i]
    /\ i \in Workers
    /\ wstate' = [wstate EXCEPT ![i] = "running"]
    /\ driver' = IF i < Len(chunks)
                 THEN [pc |-> "spawn", i |-> i + 1]
                 ELSE [pc |-> "join", i |-> 1]
    /\ access' = {}
    /\ UNCHANGED << gvars, tvars, cvars, tables, acc, ivars, rvars, avars >>

\* the stat_map of the i-th worker, were all workers to share the first
stat_map_shared(i) == 1

\* let mut stat_map = StatTable::new(): each call of aggregate_chunk, so each
\* worker, fills a table of its own
stat_map_of(i) == i

\* the i-th worker thread: aggregate_chunk(chunk), from start to end
Worker(i) ==
    /\ i \in Workers
    /\ wstate[i] = "running"
    /\ LET r == aggregate_chunk(SliceBytes(extent, chunks[i]), overflow_checks)
       IN  /\ wstate' = [wstate EXCEPT ![i] =
                            CASE r.outcome = "returns"  -> "finished"
                              [] r.outcome = "panics"   -> "panicked"
                              [] r.outcome = "diverges" -> "diverged"]
           /\ tables' = IF r.outcome = "returns"
                        THEN [tables EXCEPT ![stat_map_of(i)] = Some(r.t)]
                        ELSE tables
    /\ access' = { Access(i, stat_map_of(i), "write") }
    /\ UNCHANGED << gvars, tvars, cvars, acc, driver, ivars, rvars, avars >>

\* handle.join() returns once the thread has ended, by return or by panic
join_returns(w) == w \in { "finished", "panicked" }

\* handle.join().unwrap(), for the i-th handle; the first table joined is
\* the accumulator reduce starts from
Join(i) ==
    /\ status = "running"
    /\ driver = [pc |-> "join", i |-> i]
    /\ i \in Workers
    /\ join_returns(wstate[i])
    /\ IF wstate[i] = "panicked"
       THEN /\ status' = "panicked"
            /\ driver' = [pc |-> "aborted", i |-> i]
            /\ UNCHANGED << wstate, acc >>
       ELSE /\ wstate' = [wstate EXCEPT ![i] = "joined"]
            /\ acc' = IF i = 1 THEN tables[1] ELSE acc
            /\ driver' = IF i > 1 THEN [pc |-> "merge", i |-> i]
                         ELSE IF i < Len(chunks) THEN [pc |-> "join", i |-> i + 1]
                         ELSE [pc |-> "done", i |-> i]
            /\ UNCHANGED status
    /\ access' = IF wstate[i] = "panicked" THEN {}
                 ELSE IF i = 1 THEN { Access(Driver, i, "read"),
                                      Access(Driver, Accumulator, "write") }
                 ELSE { Access(Driver, i, "read") }
    /\ UNCHANGED << overflow_checks, tvars, cvars, tables, ivars, rvars, avars >>

\* p.merge_with(q), q the table of the i-th worker
Merge(i) ==
    /\ status = "running"
    /\ driver = [pc |-> "merge", i |-> i]
    /\ i \in Workers
    /\ acc # None
    /\ tables[i] # None
    /\ LET r == StatChunk_merge_with(acc[1], tables[i][1], overflow_checks)
       IN  /\ acc' = Some(r.t)
           /\ status' = Stopped(r.outcome)
           /\ driver' = IF r.outcome # "returns" THEN [pc |-> "aborted", i |-> i]
                        ELSE IF i < Len(chunks) THEN [pc |-> "join", i |-> i + 1]
                        ELSE [pc |-> "done", i |-> i]
    /\ wstate' = [wstate EXCEPT ![i] = "merged"]
    /\ access' = { Access(Driver, i, "read"), Access(Driver, Accumulator, "write") }
    /\ UNCHANGED << overflow_checks, tvars, cvars, tables, ivars, rvars, avars >>

InitPipeline ==
    /\ overflow_checks \in BOOLEAN
    /\ status = "running"
    /\ TableIdle
    /\ PipelineInit
    /\ StatIdle
    /\ AggregateIdle

NextPipeline ==
    \/ DriverChunkify
    \/ \E i \in 1..MaxCount : Spawn(i)
    \/ \E i \in 1..MaxCount : Worker(i)
    \/ \E i \in 1..MaxCount : Join(i)
    \/ \E i \in 1..MaxCount : Merge(i)

SpecPipeline == InitPipeline /\ [][NextPipeline]_vars

(***************************************************************************)
(* Claims about the pipeline, checked under SpecPipeline.                  *)
(***************************************************************************)
\* the reduce has returned the merged table
Folded == driver.pc = "done" /\ status = "running" /\ acc # None

\* C7: the input "X;1.0\nY;-2.5\nX;3.0\n", split into 2 chunks, aggregated
\* per chunk and folded, gives a table that holds exactly X with min 1.0,
\* sum 4.0, count 2, max 3.0 and Y with min, sum and max -2.5 and count 1.
C7_EndToEnd ==
    (extent = ScenarioExtent /\ count = 2 /\ driver.pc \in { "done", "aborted" }) =>
        /\ Folded
        /\ Resident(acc[1]) = { << "X" >>, << "Y" >> }
        /\ RecordOf(acc[1], << "X" >>) = [min |-> Decimal(10), sum |-> Decimal(40), count |-> 2, max |-> Decimal(30)]
        /\ RecordOf(acc[1], << "Y" >>) = [min |-> Decimal(-25), sum |-> Decimal(-25), count |-> 1, max |-> Decimal(-25)]

Joined(i) == wstate[i] \in { "joined", "merged" }

\* C10: the first merge_with step into the accumulator happens
\* only after every spawned worker has finished and been joined.
C10_AllJoinedBeforeMerge ==
    (\E i \in DOMAIN wstate : wstate[i] = "merged") =>
        \A j \in DOMAIN wstate : Joined(j)

\* the i-th worker has ended
Ended(i) == wstate[i] \in { "finished", "panicked", "diverged", "joined", "merged" }

\* C11: no table is accessed by two threads.  A worker accesses only its own
\* table, and only while it runs, before it is joined; the driver accesses a
\* worker's table only once that worker has ended and been joined; the
\* accumulator is accessed by the driver alone.
C11_Step ==
    \A a \in access' :
        /\ a.table = Accumulator => a.thread = Driver
        /\ a.thread # Driver =>
              /\ a.table = a.thread
              /\ wstate[a.thread] = "running"
              /\ Ended(a.thread)'
        /\ (a.thread = Driver /\ a.table # Accumulator) =>
              /\ Ended(a.table)
              /\ tables[a.table] # None
              /\ Joined(a.table)'

C11_TableOwnership == [][C11_Step]_vars

\* the driver writes the accumulator while a worker is still running and
\* another has written its own table
C11_Witness ==
    /\ Access(Driver, Accumulator, "write") \in access
    /\ \E i \in DOMAIN wstate : wstate[i] = "running"
    /\ \E i \in DOMAIN wstate : i > 1 /\ wstate[i] = "merged" /\ tables[i] # None

(***************************************************************************)
(* The records of a slice, read off its text: key, ';', value, '\n'.       *)
(***************************************************************************)
\* the least position from i on at which s holds c, Len(s) + 1 if none
RECURSIVE Find(_, _, _)
Find(s, c, i) ==
    IF i > Len(s) \/ s[i] = c THEN i ELSE Find(s, c, i + 1)

DigitChars == { "0", "1", "2", "3", "4", "5", "6", "7", "8", "9" }

\* d.d, dd.d, -d.d or -dd.d
ValueImage(v) ==
    /\ Len(v) >= 3
    /\ LET u == IF v[1] = "-" THEN Tail(v) ELSE v
       IN  /\ Len(u) \in { 3, 4 }
           /\ \A j \in 1..Len(u) :
                  IF j = Len(u) - 1 THEN u[j] = "." ELSE u[j] \in DigitChars

\* the value of an image, in tenths
RECURSIVE Tenths(_)
Tenths(v) ==
    IF v[1] = "-" THEN 0 - Tenths(Tail(v))
    ELSE IF Len(v) = 3 THEN 10 * digit(v[1], TRUE) + digit(v[3], TRUE)
    ELSE 100 * digit(v[1], TRUE) + 10 * digit(v[2], TRUE) + digit(v[4], TRUE)

\* s is a sequence of records with a non-empty key and a value image each
RECURSIVE WellFormedSlice(_)
WellFormedSlice(s) ==
    \/ s = << >>
    \/ LET k == Find(s, ";", 1)
           n == Find(s, "\n", 1)
       IN  /\ 1 < k /\ k < n /\ n <= Len(s)
           /\ ValueImage(SubSeq(s, k + 1, n - 1))
           /\ WellFormedSlice(SubSeq(s, n + 1, Len(s)))

\* the (key, value) pairs of a well-formed slice, in order
RECURSIVE RecordsOf(_)
RecordsOf(s) ==
    IF s = << >> THEN << >>
    ELSE LET k == Find(s, ";", 1)
             n == Find(s, "\n", 1)
         IN  << << SubSeq(s, 1, k - 1), Decimal(Tenths(SubSeq(s, k + 1, n - 1))) >> >>
                 \o RecordsOf(SubSeq(s, n + 1, Len(s)))

\* count, minimum, sum and maximum of the values of `key` among the records
RECURSIVE Tally(_, _, _)
Tally(records, key, stat) ==
    IF records = << >> THEN stat
    ELSE LET x == Head(records)[2]
         IN  Tally(Tail(records), key,
                   IF Head(records)[1] # key THEN stat
                   ELSE [min   |-> IF f32_lt(x, stat.min) THEN x ELSE stat.min,
                         sum   |-> f32_add(stat.sum, x),
                         count |-> stat.count + 1,
                         max   |-> IF f32_lt(stat.max, x) THEN x ELSE stat.max])

\* C18: for every slice of well-formed records, with keys of any length from
\* one byte on, aggregate_chunk returns, and the table it returns holds
\* exactly the keys of the slice, each with the count, minimum, sum and
\* maximum of its values (so each record has been taken in exactly once).
C18_AggregateChunk ==
    \A i \in DOMAIN wstate :
        LET slice   == SliceBytes(extent, chunks[i])
            records == RecordsOf(slice)
        IN  (wstate[i] \notin { "unspawned", "running" } /\ WellFormedSlice(slice)) =>
                /\ tables[i] # None
                /\ Resident(tables[i][1]) = { records[j][1] : j \in DOMAIN records }
                /\ \A j \in DOMAIN records :
                       RecordOf(tables[i][1], records[j][1]) =
                           Tally(records, records[j][1], DEFAULT_INSTANCE)

(***************************************************************************)
(* Further claims about the Table, checked under Spec.                     *)
(***************************************************************************)
\* the number of probe advances a call for `key` takes on t from `index`,
\* up to the slot that holds the key or is empty (at most n of them)
RECURSIVE Advances(_, _, _, _)
Advances(t, key, index, n) ==
    IF n = 0 \/ t.store[index].key = None \/ t.store[index].key = Some(key)
    THEN 0
    ELSE 1 + Advances(t, key, probe_advance(index, compute_hash(key)).index, n - 1)

\* C12: the collision counter never decreases; an emplace call that returns
\* adds to it exactly the probe advances it took, and insert, get, get_mut
\* and writes leave it as it is.
C12_Step ==
    /\ collision_count(table') >= collision_count(table)
    /\ IF last'.op = "emplace"
       THEN last'.outcome = "returns" =>
               collision_count(table') =
                   collision_count(table) + Advances(table, last'.key, HomeOf(last'.key), N)
       ELSE collision_count(table') = collision_count(table)

\* C12: ..., starting from 0 at new().
C12_CollisionCounter == collision_count(table) = 0 /\ [][C12_Step]_vars

\* an emplace has been counted with two advances or more in all, and the
\* key it was called for does not sit in its home slot
C12_Witness ==
    /\ last.op = "emplace"
    /\ last.outcome = "returns"
    /\ last.ret[1] # HomeOf(last.key)
    /\ collision_count(table) >= 2

\* whether the probe sequence of `key` entered at `index` comes to the slot
\* that holds `key` before it comes to an empty slot, within n advances
RECURSIVE ProbeReaches(_, _, _, _)
ProbeReaches(t, key, index, n) ==
    IF t.store[index].key = Some(key) THEN TRUE
    ELSE IF t.store[index].key = None \/ n = 0 THEN FALSE
    ELSE ProbeReaches(t, key, probe_advance(index, compute_hash(key)).index, n - 1)

\* hash(k) % N, read from the computed homes
HashModN(key) == (CHOOSE q \in HomeMemo : q[1] = compute_hash(key))[2]

\* C15: in every state reached by insert and emplace calls, the probe
\* sequence of every resident key k, from hash(k) % N on, reaches the slot
\* that holds k before it reaches an empty slot.
C15_ProbeReachability ==
    \A k \in Resident(table) : ProbeReaches(table, k, HashModN(k), N)

\* an insert or emplace has put a key into a slot other than its home
\* while the table still has an empty slot
C15_Witness ==
    /\ last.op \in { "insert", "emplace" }
    /\ last.outcome = "returns"
    /\ SlotsOf(table, last.key) # {}
    /\ HashModN(last.key) \notin SlotsOf(table, last.key)
    /\ Occupied(table) # Slots

\* C16: an insert or emplace call made while the table has an empty slot
\* terminates, whatever the hash of its key; only a call on a full table
\* may fail to.  (A call that does not return leaves the store as it was.)
C16_TerminatesWithEmptySlot ==
    (last.op \in { "insert", "emplace" } /\ Occupied(table) # Slots)
        => last.outcome # "diverges"

\* hash.reverse_bits() % N for the hashes of HashMemo: the step of the probe
\* sequence when the sum index + hash.reverse_bits() is taken exactly
StepMemo == { << p[2], WordMod(reverse_bits(p[2]), N) >> : p \in HashMemo }

ExactAdvance(index, hash) ==
    (index + (CHOOSE q \in StepMemo : q[1] = hash)[2]) % N

\* as ProbeReaches, on the sequence index, index + step, index + 2 * step,
\* ... (mod N) with the constant step above
RECURSIVE ExactReaches(_, _, _, _)
ExactReaches(t, key, index, n) ==
    IF t.store[index].key = Some(key) THEN TRUE
    ELSE IF t.store[index].key = None \/ n = 0 THEN FALSE
    ELSE ExactReaches(t, key, ExactAdvance(index, compute_hash(key)), n - 1)

\* C17: no probe advance leaves the machine word (no call ends in an
\* overflow panic), and every advance moves by the same constant step
\* reverse_bits(h) mod N: each resident key sits where the sequence with
\* that step, from hash % N on, comes to it before any empty slot.
C17_ProbeAdvanceExact ==
    /\ last.outcome # "panics"
    /\ \A k \in Resident(table) : ExactReaches(table, k, HashModN(k), N)

\* the slots whose entry a step changes
Changed == { i \in Slots : table'.store[i] # table.store[i] }

\* C20: a call changes the entry of at most one slot; a slot that holds a
\* key holds the same key after every step, so no key is removed or moved;
\* every empty slot holds the default value; and get (like the iterator)
\* changes no slot.  Only insert, emplace and a write through the returned
\* reference change a slot, an emplace no more than the key of an empty one.
C20_Step ==
    /\ Cardinality(Changed) <= 1
    /\ \A i \in Slots :
           table.store[i].key # None => table'.store[i].key = table.store[i].key
    /\ \A i \in Slots :
           table'.store[i].key = None => table'.store[i].value = DefaultI32
    /\ last'.op \in { "get", "get_mut" } => table' = table
    /\ (iterator' # iterator \/ yielded' # yielded) => table' = table
    /\ last'.op = "emplace" =>
           \A i \in Changed : /\ table.store[i].key = None
                              /\ table'.store[i].value = table.store[i].value

C20_Frame == [][C20_Step]_vars

\* an insert has just given a new value to a key that was resident, in a
\* slot other than its home, while other keys are resident and a slot is
\* empty
C20_Witness ==
    /\ last.op = "insert"
    /\ last.outcome = "returns"
    /\ last.old # None
    /\ last.old # last.arg
    /\ HomeOf(last.key) \notin SlotsOf(table, last.key)
    /\ Cardinality(Occupied(table)) >= 3
    /\ Occupied(table) # Slots

(***************************************************************************)
(* Specification SpecIter: a Table<N, &str, i32> filled by a few insert    *)
(* calls, as in test::testies, and then iterated: h.iter() makes a new     *)
(* TableIterator, and the for loop calls next() on it.  The iterator       *)
(* borrows the table, so no call changes the table while it is iterated.   *)
(***************************************************************************)
\* the table is filled by at most this many insert calls
MaxInserts == 3

InsertCalls == UNION { [1..n -> Keys \X Values] : n \in 0..MaxInserts }

\* h.insert(key, value) for each call of `calls`, in order
RECURSIVE inserted(_, _, _)
inserted(t, calls, oc) ==
    IF calls = << >>
    THEN [outcome |-> "returns", t |-> t]
    ELSE LET r == insert(t, Head(calls)[1], Head(calls)[2], oc)
         IN  IF r.outcome # "returns" THEN r ELSE inserted(r.t, Tail(calls), oc)

InitIter ==
    /\ overflow_checks \in BOOLEAN
    /\ status = "running"
    /\ \E calls \in InsertCalls :
          LET r == inserted(new(DefaultI32), calls, overflow_checks)
          IN  r.outcome = "returns" /\ table = r.t
    /\ last = Call("new", << >>, None, "returns", None, None)
    /\ ref = None
    /\ shadow = << >>
    /\ fresh = TRUE
    /\ idem = "none"
    /\ iterator = None
    /\ yielded = << >>
    /\ ChunkifyIdle
    /\ PipelineIdle
    /\ StatIdle
    /\ AggregateIdle

\* h.iter()
Iter ==
    /\ iterator' = Some(iter_start)
    /\ yielded' = << >>
    /\ last' = Call("iter", << >>, None, "returns", None, None)
    /\ UNCHANGED << gvars, table, ref, shadow, fresh, idem, cvars, pvars, rvars, avars >>

\* iterator.next()
IterNext ==
    /\ iterator # None
    /\ LET r == iter_next(table, iterator[1])
       IN  /\ iterator' = Some(r.index)
           /\ yielded' = IF r.item = None THEN yielded ELSE Append(yielded, r.item[1])
           /\ last' = Call("next", << >>, None, "returns", r.item, None)
    /\ UNCHANGED << gvars, table, ref, shadow, fresh, idem, cvars, pvars, rvars, avars >>

NextIter == Iter \/ IterNext

SpecIter == InitIter /\ [][NextIter]_vars

(***************************************************************************)
(* Claims about iteration, checked under SpecIter.                         *)
(***************************************************************************)
\* the (key, value) pairs of the occupied slots of t from slot i on, by
\* increasing slot index
RECURSIVE PairsFrom(_, _)
PairsFrom(t, i) ==
    IF i >= N THEN << >>
    ELSE IF t.store[i].key = None THEN PairsFrom(t, i + 1)
    ELSE << << t.store[i].key[1], t.store[i].value >> >> \o PairsFrom(t, i + 1)

\* C13: a new iterator has yielded nothing; each next() yields the pair of
\* the next occupied slot by increasing slot index, one pair per occupied
\* slot, and None once every occupied slot has been yielded, and from then
\* on; neither iter() nor next() changes the table.
C13_Step ==
    /\ table' = table
    /\ last'.op = "iter" => yielded' = << >>
    /\ last'.op = "next" =>
          LET all == PairsFrom(table, 0)
          IN  IF Len(yielded) < Len(all)
              THEN /\ last'.ret = Some(all[Len(yielded) + 1])
                   /\ yielded' = SubSeq(all, 1, Len(yielded) + 1)
              ELSE /\ last'.ret = None
                   /\ yielded' = all

C13_Iter == [][C13_Step]_vars

\* the iterator has yielded two pairs or more, the first from slot 0, has
\* skipped an empty slot, and has then returned None twice
C13_Witness ==
    /\ last.op = "next"
    /\ last.ret = None
    /\ iterator = Some(N)
    /\ Len(yielded) >= 2
    /\ Len(yielded) < N
    /\ table.store[0].key # None
    /\ yielded = PairsFrom(table, 0)

(***************************************************************************)
(* Specification SpecStat: three Stat values, each made by Stat::add from  *)
(* a few parsed temperatures, merged by Stat::merge_with in each order.    *)
(***************************************************************************)
\* 0.1, 0.5 and -2.5, as parse_temperature reads them
StatTemperatures == { Decimal(1), Decimal(5), Decimal(-25) }

\* a Stat has taken in at most this many temperatures
MaxAdds == 2

\* DEFAULT_INSTANCE after add(x) for each x of xs
RECURSIVE added(_, _)
added(self, xs) ==
    IF xs = << >> THEN self ELSE added(Stat_add(self, Head(xs)), Tail(xs))

Stats ==
    { added(DEFAULT_INSTANCE, xs) :
          xs \in UNION { [1..n -> StatTemperatures] : n \in 0..MaxAdds } }

InitStat ==
    /\ overflow_checks = FALSE
    /\ status = "running"
    /\ TableIdle
    /\ ChunkifyIdle
    /\ PipelineIdle
    /\ AggregateIdle
    /\ stats \in [{ "a", "b", "c" } -> Stats]
    /\ merged = [ab |-> None, ba |-> None, ab_c |-> None, a_bc |-> None]

\* a.merge_with(&b)
MergeAB ==
    /\ merged.ab = None
    /\ merged' = [merged EXCEPT !.ab = Some(Stat_merge_with(stats.a, stats.b))]
    /\ UNCHANGED << stats, gvars, tvars, cvars, pvars, ivars, avars >>

\* b.merge_with(&a)
MergeBA ==
    /\ merged.ba = None
    /\ merged' = [merged EXCEPT !.ba = Some(Stat_merge_with(stats.b, stats.a))]
    /\ UNCHANGED << stats, gvars, tvars, cvars, pvars, ivars, avars >>

\* a.merge_with(&b); a.merge_with(&c)
MergeABThenC ==
    /\ merged.ab_c = None
    /\ merged' = [merged EXCEPT !.ab_c =
                     Some(Stat_merge_with(Stat_merge_with(stats.a, stats.b), stats.c))]
    /\ UNCHANGED << stats, gvars, tvars, cvars, pvars, ivars, avars >>

\* b.merge_with(&c); a.merge_with(&b)
MergeAWithBC ==
    /\ merged.a_bc = None
    /\ merged' = [merged EXCEPT !.a_bc =
                     Some(Stat_merge_with(stats.a, Stat_merge_with(stats.b, stats.c)))]
    /\ UNCHANGED << stats, gvars, tvars, cvars, pvars, ivars, avars >>

NextStat == MergeAB \/ MergeBA \/ MergeABThenC \/ MergeAWithBC

SpecStat == InitStat /\ [][NextStat]_vars

(***************************************************************************)
(* Claims about Stat, checked under SpecStat.                              *)
(***************************************************************************)
\* C14: merge_with is commutative and associative on all four fields:
\* merge(a, b) = merge(b, a) and merge(merge(a, b), c) = merge(a, merge(b, c)).
C14_MergeAssociativeCommutative ==
    /\ (merged.ab # None /\ merged.ba # None) => merged.ab = merged.ba
    /\ (merged.ab_c # None /\ merged.a_bc # None) => merged.ab_c = merged.a_bc

(***************************************************************************)
(* Specification SpecAggregate: two workers and the fold of main, turn by  *)
(* turn.  Each worker runs the loop of aggregate_chunk one turn at a time  *)
(* on a slice of whole records; the driver joins the workers in order and  *)
(* merges the second table into the first item by item, as the for loop of *)
(* StatChunk::merge_with does.                                             *)
(***************************************************************************)
\* "abc;1.0\n", "abc;3.0\n", "aaa;-2.5\n", "bab;0.5\n"
AggregateRecords ==
    { << "a", "b", "c", ";", "1", ".", "0", "\n" >>,
      << "a", "b", "c", ";", "3", ".", "0", "\n" >>,
      << "a", "a", "a", ";", "-", "2", ".", "5", "\n" >>,
      << "b", "a", "b", ";", "0", ".", "5", "\n" >> }

\* an input has at most this many records
MaxRecords == 3

RECURSIVE Flatten(_)
Flatten(rs) == IF rs = << >> THEN << >> ELSE Head(rs) \o Flatten(Tail(rs))

InitAggregate ==
    /\ overflow_checks \in BOOLEAN
    /\ status = "running"
    /\ TableIdle
    /\ StatIdle
    /\ \E n \in 0..MaxRecords :
       \E rs \in [1..n -> AggregateRecords] :
       \E k \in 0..n :
           LET split == Len(Flatten(SubSeq(rs, 1, k)))
           IN  /\ extent = Flatten(rs)
               /\ chunks = << [start |-> 0, end |-> split],
                              [start |-> split, end |-> Len(Flatten(rs))] >>
    /\ count = 2
    /\ chunked = "returns"
    /\ tables = << None, None >>
    /\ wstate = << "running", "running" >>
    /\ acc = None
    /\ driver = [pc |-> "join", i |-> 1]
    /\ access = {}
    /\ cursors = [i \in 1..2 |-> SliceBytes(extent, chunks[i])]
    /\ stat_maps = [i \in 1..2 |-> new(DEFAULT_INSTANCE)]
    /\ pending = << >>

\* the i-th worker: one turn of the loop of aggregate_chunk
AggregateTurn(i) ==
    /\ i \in DOMAIN wstate
    /\ wstate[i] = "running"
    /\ LET turn(r) ==
               /\ stat_maps' = [stat_maps EXCEPT ![i] = r.t]
               /\ cursors' = [cursors EXCEPT ![i] = r.cursor]
               /\ wstate' = [wstate EXCEPT ![i] =
                                CASE r.outcome = "continues" -> "running"
                                  [] r.outcome = "returns"   -> "finished"
                                  [] r.outcome = "panics"    -> "panicked"
                                  [] r.outcome = "diverges"  -> "diverged"]
               /\ tables' = IF r.outcome = "returns"
                            THEN [tables EXCEPT ![i] = Some(r.t)]
                            ELSE tables
       IN  turn(aggregate_turn(stat_maps[i], cursors[i], overflow_checks))
    /\ access' = { Access(i, i, "write") }
    /\ UNCHANGED << gvars, tvars, cvars, acc, driver, ivars, rvars, pending >>

\* p.merge_with(q), q the table of the i-th worker: data.iter()
MergeBegin(i) ==
    /\ status = "running"
    /\ driver = [pc |-> "merge", i |-> i]
    /\ i \in DOMAIN wstate
    /\ acc # None
    /\ tables[i] # None
    /\ pending' = iter(tables[i][1])
    /\ driver' = [pc |-> "merging", i |-> i]
    /\ access' = { Access(Driver, i, "read") }
    /\ UNCHANGED << gvars, tvars, cvars, tables, wstate, acc, ivars, rvars,
                    cursors, stat_maps >>

\* one turn of the for loop: self.data.emplace(&city).merge_with(&stat)
MergeItem(i) ==
    /\ status = "running"
    /\ driver = [pc |-> "merging", i |-> i]
    /\ pending # << >>
    /\ LET merge(r) ==
               /\ acc' = Some(r.t)
               /\ status' = Stopped(r.outcome)
               /\ driver' = IF r.outcome # "returns" THEN [pc |-> "aborted", i |-> i]
                            ELSE driver
       IN  merge(merge_item(acc[1], Head(pending), overflow_checks))
    /\ pending' = Tail(pending)
    /\ access' = { Access(Driver, i, "read"), Access(Driver, Accumulator, "write") }
    /\ UNCHANGED << overflow_checks, tvars, cvars, tables, wstate, ivars, rvars,
                    cursors, stat_maps >>

\* the for loop ends, merge_with returns
MergeEnd(i) ==
    /\ status = "running"
    /\ driver = [pc |-> "merging", i |-> i]
    /\ pending = << >>
    /\ wstate' = [wstate EXCEPT ![i] = "merged"]
    /\ driver' = IF i < Len(chunks) THEN [pc |-> "join", i |-> i + 1]
                 ELSE [pc |-> "done", i |-> i]
    /\ access' = {}
    /\ UNCHANGED << gvars, tvars, cvars, tables, acc, ivars, rvars, avars >>

NextAggregate ==
    \/ \E i \in 1..2 : AggregateTurn(i)
    \/ \E i \in 1..2 : Join(i)
    \/ \E i \in 1..2 : MergeBegin(i)
    \/ \E i \in 1..2 : MergeItem(i)
    \/ \E i \in 1..2 : MergeEnd(i)

SpecAggregate == InitAggregate /\ [][NextAggregate]_vars

(***************************************************************************)
(* Claims about the records, checked under SpecAggregate.                  *)
(***************************************************************************)
RecordSound(stat) == stat.count >= 1 /\ ~ f32_lt(stat.max, stat.min)

TableSound(t) == \A i \in Occupied(t) : RecordSound(t.store[i].value)

\* C19: between the steps of the pipeline, that is after each
\* emplace(key).add(value) of a worker and each emplace(key).merge_with(record)
\* of the fold, every resident record of every worker table and of the
\* accumulator has count >= 1 and min <= max; so no record that is formatted
\* has count 0.
C19_ResidentRecordsCounted ==
    /\ \A i \in DOMAIN stat_maps : TableSound(stat_maps[i])
    /\ \A i \in DOMAIN tables : tables[i] # None => TableSound(tables[i][1])
    /\ acc # None => TableSound(acc[1])

\* the fold is over, and the accumulator holds a record that the second
\* worker's table added to, with several observations and min below max
C19_Witness ==
    /\ driver.pc = "done"
    /\ \E i \in Occupied(acc[1]) :
           /\ acc[1].store[i].value.count >= 2
           /\ f32_lt(acc[1].store[i].value.min, acc[1].store[i].value.max)
           /\ acc[1].store[i].key[1] \in Resident(tables[2][1])
           /\ acc[1].store[i].key[1] \in Resident(tables[1][1])

====
